---- MODULE Spec2Model ----
(***************************************************************************)
(* Model of the RLP type codecs of src/impls.rs: the Encodable/Decodable   *)
(* implementations for bool, the unsigned and signed integers, fixed-size  *)
(* byte arrays and Option<T>, and the helper decode_usize.                 *)
(*                                                                         *)
(* Integers of the program are up to 128 bits wide, so a value of a        *)
(* W-byte integer type is held as its W base-256 digits, most significant  *)
(* first, and the arithmetic of the code (shifts, xor, negation, +=) is    *)
(* carried out digit by digit with the wraparound of the type's width.     *)
(***************************************************************************)
EXTENDS Integers, Sequences, FiniteSets, TLC

VARIABLES pc, origin, node, result

vars == <<pc, origin, node, result>>

(***************************************************************************)
(* Bounds of the model.                                                    *)
(***************************************************************************)
\* payloads are up to MaxExtra bytes longer than the widest type they are decoded as
MaxExtra == 1
\* a list node off the wire has at most MaxChildren children
MaxChildren == 2

(***************************************************************************)
(* Types.                                                                  *)
(***************************************************************************)
WideUTypes == {"u16", "u32", "u64", "u128"}
UTypes == {"u8"} \cup WideUTypes
ITypes == {"i8", "i16", "i32", "i64", "i128"}
UsizeTargets == {"usize32", "usize64"}
ArrayTypes == {"a4", "a8", "a16", "a32", "a64", "a128"}
OptionTypes == {"opt_u8", "opt_u16", "opt_i8", "opt_bool"}

\* mem::size_of::<T>() in bytes
SizeOf == [u8 |-> 1, u16 |-> 2, u32 |-> 4, u64 |-> 8, u128 |-> 16,
           i8 |-> 1, i16 |-> 2, i32 |-> 4, i64 |-> 8, i128 |-> 16,
           usize32 |-> 4, usize64 |-> 8]

\* $size of each impl_array_rlp! instantiation
ArraySize == [a4 |-> 4, a8 |-> 8, a16 |-> 16, a32 |-> 32, a64 |-> 64, a128 |-> 128]

\* the T of each modelled Option<T>
Inner == [opt_u8 |-> "u8", opt_u16 |-> "u16", opt_i8 |-> "i8", opt_bool |-> "bool"]

(***************************************************************************)
(* Byte strings.                                                           *)
(***************************************************************************)
Fill(n, b) == [i \in 1..n |-> b]

Drop(s, k) == SubSeq(s, k + 1, Len(s))

\* `v as $wider` for an unsigned v: zero extension to w bytes
ZeroExtend(v, w) == Fill(w - Len(v), 0) \o v

\* `*self as i128` for a signed value: sign extension to w bytes
SignExtend(v, w) == Fill(w - Len(v), IF v[1] >= 128 THEN 255 ELSE 0) \o v

\* `x as $name` for a narrower $name: the low w bytes
Truncate(v, w) == SubSeq(v, Len(v) - w + 1, Len(v))

RECURSIVE LeadingZeroBitsOfByte(_, _)
LeadingZeroBitsOfByte(b, width) ==
  IF b = 0 THEN width ELSE LeadingZeroBitsOfByte(b \div 2, width - 1)

\* T::leading_zeros: the number of zero bits above the highest set bit
RECURSIVE LeadingZeros(_)
LeadingZeros(v) ==
  IF Len(v) = 0 THEN 0
  ELSE IF v[1] = 0 THEN 8 + LeadingZeros(Tail(v))
  ELSE LeadingZeroBitsOfByte(v[1], 8)

RECURSIVE BitXor(_, _)
BitXor(a, b) ==
  IF a = 0 /\ b = 0 THEN 0
  ELSE (((a % 2) + (b % 2)) % 2) + 2 * BitXor(a \div 2, b \div 2)

\* a ^ b
Xor(a, b) == [k \in 1..Len(a) |-> BitXor(a[k], b[k])]

\* a << 1, the bit shifted out of the top is lost
Shl1(a) ==
  [k \in 1..Len(a) |->
     (2 * a[k] + (IF k < Len(a) THEN a[k + 1] \div 128 ELSE 0)) % 256]

\* a >> 1 on an unsigned a
Shr1(a) ==
  [k \in 1..Len(a) |->
     (a[k] \div 2) + (IF k > 1 THEN (a[k - 1] % 2) * 128 ELSE 0)]

\* a >> (bits - 1) on a signed a: every bit becomes the sign bit
SarTop(a) == Fill(Len(a), IF a[1] >= 128 THEN 255 ELSE 0)

\* a & 1
And1(a) == [k \in 1..Len(a) |-> IF k = Len(a) THEN a[k] % 2 ELSE 0]

\* a + b + c for a carry c, wrapping at the width of a
RECURSIVE AddCarry(_, _, _)
AddCarry(a, b, c) ==
  IF Len(a) = 0 THEN <<>>
  ELSE LET n == Len(a)
           d == a[n] + b[n] + c
       IN  Append(AddCarry(SubSeq(a, 1, n - 1), SubSeq(b, 1, n - 1), d \div 256), d % 256)

\* a + b, wrapping at the width of a
Add(a, b) == AddCarry(a, b, 0)

\* -a in two's complement
Neg(a) ==
  Add([k \in 1..Len(a) |-> 255 - a[k]], [k \in 1..Len(a) |-> IF k = Len(a) THEN 1 ELSE 0])

\* (byte as $name) << shift, for a shift of shiftBytes * 8 bits that keeps the byte inside w bytes
ByteShl(byte, shiftBytes, w) ==
  [k \in 1..w |-> IF k = w - shiftBytes THEN byte ELSE 0]

(***************************************************************************)
(* Results of decode: Result<T, DecoderError>, or the panic of the thread. *)
(***************************************************************************)
Ok(v) == [status |-> "ok", val |-> v, calls |-> <<>>]
Err(e) == [status |-> e, val |-> <<>>, calls |-> <<>>]
Panic == [status |-> "panic", val |-> <<>>, calls |-> <<>>]

(***************************************************************************)
(* The stream engine, as far as the codecs drive it.                       *)
(***************************************************************************)
ValueNode(bytes) == [kind |-> "value", payload |-> bytes, children |-> <<>>]
ListNode(cs) == [kind |-> "list", payload |-> <<>>, children |-> cs]
NoNode == [kind |-> "none", payload |-> <<>>, children |-> <<>>]

\* s.encoder().encode_value(bytes)
encode_value(bytes) == ValueNode(bytes)

\* s.encoder().encode_iter(it): the bytes the iterator yields are the payload
encode_iter(it) == ValueNode(it)

\* s.begin_list(n) followed by n appends
begin_list(n, appended) == ListNode(SubSeq(appended, 1, n))

\* rlp.decoder().decode_value(f), where applied stands for f(rlp.payload)
decode_value(rlp, applied) ==
  IF rlp.kind = "value" THEN applied ELSE Err("RlpExpectedToBeData")

\* rlp.item_count()
item_count(rlp) ==
  IF rlp.kind = "list" THEN [status |-> "ok", val |-> Len(rlp.children)]
  ELSE [status |-> "RlpExpectedToBeList", val |-> 0]

(***************************************************************************)
(* impl Encodable / Decodable for u8.                                      *)
(***************************************************************************)
\* rlp_append emitting the byte of a zero as well
U8Encode_KeepZero(v) == encode_iter(<<v[1]>>)

\* <u8 as Encodable>::rlp_append
U8Encode(v) ==
  IF v[1] # 0 THEN encode_iter(<<v[1]>>) ELSE encode_iter(<<>>)

U8Closure(bytes) ==
  IF Len(bytes) = 1 /\ bytes[1] # 0 THEN Ok(<<bytes[1]>>)
  ELSE IF Len(bytes) = 0 THEN Ok(<<0>>)
  ELSE IF Len(bytes) = 1 THEN Err("RlpInvalidIndirection")
  ELSE Err("RlpIsTooBig")

\* <u8 as Decodable>::decode
U8Decode(rlp) == decode_value(rlp, U8Closure(rlp.payload))

(***************************************************************************)
(* impl_encodable_for_u! / impl_decodable_for_u! (u16, u32, u64, u128).    *)
(***************************************************************************)
\* rlp_append rounding the count of leading zero bytes up
UEncode_RoundUp(t, v) ==
  LET leading_empty_bytes == (LeadingZeros(v) + 7) \div 8
      buffer == v
  IN  encode_value(Drop(buffer, leading_empty_bytes))

\* <$name as Encodable>::rlp_append
UEncode(t, v) ==
  LET leading_empty_bytes == LeadingZeros(v) \div 8
      buffer == v
  IN  encode_value(Drop(buffer, leading_empty_bytes))

\* the loop `for (i, byte) in bytes.iter().enumerate().take(l)`, from index i on
RECURSIVE Accumulate(_, _, _, _, _)
Accumulate(bytes, l, i, res, w) ==
  IF i >= l \/ i >= Len(bytes) THEN res
  ELSE LET shift == l - 1 - i
       IN  Accumulate(bytes, l, i + 1, Add(res, ByteShl(bytes[i + 1], shift, w)), w)

\* the closure without the check of the first byte
UClosure_NoZeroCheck(t, rlp, bytes) ==
  LET l == Len(bytes) IN
  IF l = 0 \/ l = 1 THEN
    LET r == U8Decode(rlp)
    IN  IF r.status = "ok" THEN Ok(ZeroExtend(r.val, SizeOf[t])) ELSE r
  ELSE IF l <= SizeOf[t] THEN Ok(Accumulate(bytes, l, 0, Fill(SizeOf[t], 0), SizeOf[t]))
  ELSE Err("RlpIsTooBig")

\* the closure with no bound on the length
UClosure_NoBound(t, rlp, bytes) ==
  LET l == Len(bytes) IN
  IF l = 0 \/ l = 1 THEN
    LET r == U8Decode(rlp)
    IN  IF r.status = "ok" THEN Ok(ZeroExtend(r.val, SizeOf[t])) ELSE r
  ELSE IF bytes[1] = 0 THEN Err("RlpInvalidIndirection")
  ELSE Ok(Accumulate(bytes, l, 0, Fill(SizeOf[t], 0), SizeOf[t]))

UClosure(t, rlp, bytes) ==
  LET l == Len(bytes) IN
  IF l = 0 \/ l = 1 THEN
    LET r == U8Decode(rlp)
    IN  IF r.status = "ok" THEN Ok(ZeroExtend(r.val, SizeOf[t])) ELSE r
  ELSE IF l <= SizeOf[t] THEN
    IF bytes[1] = 0 THEN Err("RlpInvalidIndirection")
    ELSE Ok(Accumulate(bytes, l, 0, Fill(SizeOf[t], 0), SizeOf[t]))
  ELSE Err("RlpIsTooBig")

\* <$name as Decodable>::decode
UDecode(t, rlp) == decode_value(rlp, UClosure(t, rlp, rlp.payload))

\* encode / decode of any unsigned type
UnsignedEncode(t, v) == IF t = "u8" THEN U8Encode(v) ELSE UEncode(t, v)
UnsignedDecode(t, rlp) == IF t = "u8" THEN U8Decode(rlp) ELSE UDecode(t, rlp)

(***************************************************************************)
(* decode_usize, on a target whose usize has SizeOf[t] bytes.              *)
(***************************************************************************)
decode_usize(t, bytes) ==
  LET l == Len(bytes) IN
  IF l <= SizeOf[t] THEN
    IF l = 0 THEN Panic \* bytes[0] on an empty slice: index out of bounds
    ELSE IF bytes[1] = 0 THEN Err("RlpInvalidIndirection")
    ELSE Ok(Accumulate(bytes, l, 0, Fill(SizeOf[t], 0), SizeOf[t]))
  ELSE Err("RlpIsTooBig")

(***************************************************************************)
(* impl Encodable / Decodable for bool.                                    *)
(***************************************************************************)
\* <bool as Encodable>::rlp_append
BoolEncode(b) == encode_iter(<<IF b THEN 1 ELSE 0>>)

BoolClosure(bytes) ==
  IF Len(bytes) = 0 THEN Ok(FALSE)
  ELSE IF Len(bytes) = 1 THEN Ok(bytes[1] # 0)
  ELSE Err("RlpIsTooBig")

\* <bool as Decodable>::decode
BoolDecode(rlp) == decode_value(rlp, BoolClosure(rlp.payload))

(***************************************************************************)
(* impl_encodable_for_i! / impl_decodable_for_i! (i8 .. i128).             *)
(***************************************************************************)
\* the zigzag with a logical instead of an arithmetic right shift
ZigZag_LogicalShift(i) ==
  Xor(Shl1(i), Fill(Len(i) - 1, 0) \o <<IF i[1] >= 128 THEN 1 ELSE 0>>)

\* ((i << 1) ^ (i >> 127)) as u128
ZigZag(i) == Xor(Shl1(i), SarTop(i))

\* <$name as Encodable>::rlp_append
IEncode(t, v) ==
  LET i == SignExtend(v, 16)
      zigzag == ZigZag(i)
      leading_empty_bytes == LeadingZeros(zigzag) \div 8
      buffer == zigzag
  IN  encode_value(Drop(buffer, leading_empty_bytes))

\* ((res >> 1) ^ (-((res & 1) as i128)) as u128) as $name
Recover(t, res) == Truncate(Xor(Shr1(res), Neg(And1(res))), SizeOf[t])

\* <$name as Decodable>::decode
IDecode(t, rlp) ==
  LET r == UDecode("u128", rlp)
  IN  IF r.status = "ok" THEN Ok(Recover(t, r.val)) ELSE r

(***************************************************************************)
(* impl_array_rlp! ([u8; 4] .. [u8; 128]).                                 *)
(***************************************************************************)
\* <[u8; $size] as Encodable>::rlp_append
ArrayEncode(t, v) == encode_value(v)

\* t.copy_from_slice(bytes) into t = [0u8; $size]
CopyFromSlice(size, bytes) == [k \in 1..size |-> bytes[k]]

\* the closure truncating a longer payload
ArrayClosure_Truncating(t, bytes) ==
  IF Len(bytes) < ArraySize[t] THEN Err("RlpIsTooShort")
  ELSE Ok(CopyFromSlice(ArraySize[t], bytes))

ArrayClosure(t, bytes) ==
  IF Len(bytes) < ArraySize[t] THEN Err("RlpIsTooShort")
  ELSE IF Len(bytes) > ArraySize[t] THEN Err("RlpIsTooBig")
  ELSE Ok(CopyFromSlice(ArraySize[t], bytes))

\* <[u8; $size] as Decodable>::decode
ArrayDecode(t, rlp) == decode_value(rlp, ArrayClosure(t, rlp.payload))

(***************************************************************************)
(* impl Encodable / Decodable for Option<T>.                               *)
(***************************************************************************)
\* T::rlp_append / T::decode for the types T an Option is modelled over
ScalarEncode(t, v) ==
  IF t = "bool" THEN BoolEncode(v)
  ELSE IF t \in UTypes THEN UnsignedEncode(t, v)
  ELSE IEncode(t, v)

ScalarDecode(t, rlp) ==
  IF t = "bool" THEN BoolDecode(rlp)
  ELSE IF t \in UTypes THEN UnsignedDecode(t, rlp)
  ELSE IDecode(t, rlp)

\* s.append(value)
append(t, value) == ScalarEncode(t, value)

\* rlp.val_at(index)
val_at(t, rlp, index) ==
  IF index < Len(rlp.children) THEN ScalarDecode(t, rlp.children[index + 1])
  ELSE Err("RlpIsTooShort")

\* <Option<T> as Encodable>::rlp_append; None is <<>> and Some(v) is <<v>>
OptionEncode(t, o) ==
  IF Len(o) = 0 THEN begin_list(0, <<>>)
  ELSE begin_list(1, <<append(Inner[t], o[1])>>)

\* decode taking the first child of any non-empty list
OptionDecode_FirstChild(t, rlp) ==
  LET items == item_count(rlp) IN
  IF items.status # "ok" THEN Err(items.status)
  ELSE IF items.val >= 1 THEN
    LET r == val_at(Inner[t], rlp, 0)
    IN  IF r.status = "ok" THEN [status |-> "ok", val |-> <<r.val>>, calls |-> <<0>>]
        ELSE [r EXCEPT !.calls = <<0>>]
  ELSE Ok(<<>>)

\* <Option<T> as Decodable>::decode; calls lists the indexes handed to val_at
OptionDecode(t, rlp) ==
  LET items == item_count(rlp) IN
  IF items.status # "ok" THEN Err(items.status)
  ELSE IF items.val = 1 THEN
    LET r == val_at(Inner[t], rlp, 0)
    IN  IF r.status = "ok" THEN [status |-> "ok", val |-> <<r.val>>, calls |-> <<0>>]
        ELSE [r EXCEPT !.calls = <<0>>]
  ELSE IF items.val = 0 THEN Ok(<<>>)
  ELSE Err("RlpIncorrectListLen")

(***************************************************************************)
(* Inputs: the values handed to encode and the nodes read off the wire.    *)
(***************************************************************************)
EdgeBytes == {0, 1, 127, 128, 255}
FillBytes == {0, 255}

\* byte strings of length n: a first byte, a run of one fill byte, a last byte
Shaped(n) ==
  IF n = 0 THEN {<<>>}
  ELSE IF n = 1 THEN {<<f>> : f \in EdgeBytes}
  ELSE {<<f>> \o Fill(n - 2, m) \o <<l>> : f \in EdgeBytes, m \in FillBytes, l \in EdgeBytes}

\* values of a w-byte integer type: every number of significant bytes
Vals(w) == UNION {{Fill(w - n, 0) \o s : s \in Shaped(n)} : n \in 0..w}

\* payload lengths: up to past the widest integer, and around every array size
PayloadLens ==
  (0..(16 + MaxExtra)) \cup
  {ArraySize[a] + d : a \in ArrayTypes, d \in (0 - MaxExtra)..MaxExtra}

Payloads == UNION {Shaped(n) : n \in PayloadLens}

ChildNodes ==
  {ValueNode(p) : p \in {<<>>, <<0>>, <<1>>, <<255>>, <<0, 1>>, <<1, 0>>, <<128, 0, 0>>}}
    \cup {ListNode(<<>>)}

RECURSIVE Lists(_)
Lists(n) ==
  IF n = 0 THEN {<<>>}
  ELSE LET shorter == Lists(n - 1)
       IN  shorter \cup {Append(cs, c) : cs \in {x \in shorter : Len(x) = n - 1}, c \in ChildNodes}

WireNodes == {ValueNode(p) : p \in Payloads} \cup {ListNode(cs) : cs \in Lists(MaxChildren)}

OptionVals(t) ==
  {<<>>} \cup
  (IF Inner[t] = "bool" THEN {<<TRUE>>, <<FALSE>>}
   ELSE {<<v>> : v \in Vals(SizeOf[Inner[t]])})

(***************************************************************************)
(* The state machine: a value is encoded, or a node is read off the wire,  *)
(* and the node is then decoded as some type.                              *)
(***************************************************************************)
NoOrigin == [op |-> "none", ty |-> "", val |-> <<>>]
NoResult == [ty |-> "", status |-> "none", val |-> <<>>, calls |-> <<>>]

Typed(t, r) == [ty |-> t, status |-> r.status, val |-> r.val, calls |-> r.calls]

Init ==
  /\ pc = "idle"
  /\ origin = NoOrigin
  /\ node = NoNode
  /\ result = NoResult

Encoded(t, v, n) ==
  /\ pc = "idle"
  /\ pc' = "ready"
  /\ origin' = [op |-> "encode", ty |-> t, val |-> v]
  /\ node' = n
  /\ UNCHANGED result

Decoded(t, r) ==
  /\ pc = "ready"
  /\ pc' = "done"
  /\ result' = Typed(t, r)
  /\ UNCHANGED <<origin, node>>

EncodeUnsigned == \E t \in UTypes : \E v \in Vals(SizeOf[t]) : Encoded(t, v, UnsignedEncode(t, v))

EncodeSigned == \E t \in ITypes : \E v \in Vals(SizeOf[t]) : Encoded(t, v, IEncode(t, v))

EncodeBool == \E b \in BOOLEAN : Encoded("bool", b, BoolEncode(b))

EncodeArray == \E t \in ArrayTypes : \E v \in Shaped(ArraySize[t]) : Encoded(t, v, ArrayEncode(t, v))

EncodeOption == \E t \in OptionTypes : \E o \in OptionVals(t) : Encoded(t, o, OptionEncode(t, o))

Receive ==
  /\ pc = "idle"
  /\ pc' = "ready"
  /\ origin' = [op |-> "wire", ty |-> "", val |-> <<>>]
  /\ node' \in WireNodes
  /\ UNCHANGED result

DecodeUnsigned == \E t \in UTypes : Decoded(t, UnsignedDecode(t, node))

DecodeSigned == \E t \in ITypes : Decoded(t, IDecode(t, node))

DecodeBool == Decoded("bool", BoolDecode(node))

DecodeArray == \E t \in ArrayTypes : Decoded(t, ArrayDecode(t, node))

DecodeOption == \E t \in OptionTypes : Decoded(t, OptionDecode(t, node))

DecodeUsize ==
  /\ node.kind = "value"
  /\ \E t \in UsizeTargets : Decoded(t, decode_usize(t, node.payload))

Next ==
  \/ EncodeUnsigned
  \/ EncodeSigned
  \/ EncodeBool
  \/ EncodeArray
  \/ EncodeOption
  \/ Receive
  \/ DecodeUnsigned
  \/ DecodeSigned
  \/ DecodeBool
  \/ DecodeArray
  \/ DecodeOption
  \/ DecodeUsize

Spec == Init /\ [][Next]_vars

(***************************************************************************)
(* Properties.                                                             *)
(***************************************************************************)
\* the node was produced by encoding a value of a type in ts
EncodedFrom(ts) == pc \in {"ready", "done"} /\ origin.op = "encode" /\ origin.ty \in ts

\* the node has been decoded as a type in ts
DecodedAs(ts) == pc = "done" /\ result.ty \in ts

\* the node has been decoded as the type it was encoded from, a type in ts
RoundTrip(ts) == EncodedFrom(ts) /\ DecodedAs(ts) /\ result.ty = origin.ty

\* C1: for every unsigned type T and every value v of T, decoding as T the
\* payload produced by encoding v succeeds and returns exactly v.
C1_UnsignedRoundTrip ==
  RoundTrip(UTypes) => result.status = "ok" /\ result.val = origin.val

C1_Witness ==
  /\ RoundTrip({"u128"})
  /\ origin.val = Fill(16, 255)
  /\ result.status = "ok"

\* C2: the payload emitted by encode for an unsigned value is the value's
\* big-endian representation with all leading zero bytes removed: it never
\* starts with a zero byte, encode(0) is the empty payload and encode(1) is [0x01].
C2_UnsignedMinimal ==
  EncodedFrom(UTypes) =>
    LET w == SizeOf[origin.ty]
        p == node.payload
    IN  /\ node.kind = "value"
        /\ Len(p) <= w
        /\ ZeroExtend(p, w) = origin.val
        /\ Len(p) > 0 => p[1] # 0
        /\ origin.val = Fill(w, 0) => p = <<>>
        /\ origin.val = Fill(w - 1, 0) \o <<1>> => p = <<1>>

C2_Witness ==
  /\ EncodedFrom({"u32"})
  /\ origin.val = <<0, 0, 0, 1>>
  /\ node.payload = <<1>>

\* a value node whose payload has a length in lens
PayloadLenIn(lens) == node.kind = "value" /\ Len(node.payload) \in lens

\* C3: decoding as an unsigned type of width W a payload of length in [1, W]
\* whose first byte is 0x00 fails with InvalidIndirection.
C3_LeadingZeroRejected ==
  (/\ DecodedAs(UTypes)
   /\ PayloadLenIn(1..SizeOf[result.ty])
   /\ node.payload[1] = 0)
    => result.status = "RlpInvalidIndirection"

C3_Witness ==
  /\ DecodedAs({"u64"})
  /\ node.kind = "value"
  /\ node.payload = <<0, 1>>
  /\ result.status = "RlpInvalidIndirection"

\* C4: decoding as an unsigned type of width W a payload longer than W fails
\* with TooBig, whatever its bytes.
C4_TooLongRejected ==
  (/\ DecodedAs(UTypes)
   /\ node.kind = "value"
   /\ Len(node.payload) > SizeOf[result.ty])
    => result.status = "RlpIsTooBig"

C4_Witness ==
  /\ DecodedAs({"u16"})
  /\ PayloadLenIn({3})
  /\ node.payload[1] = 0
  /\ result.status = "RlpIsTooBig"

\* C5: for every signed type T and every value v of T, decoding as T the
\* payload produced by encoding v succeeds and returns exactly v.
C5_ZigZagRoundTrip ==
  RoundTrip(ITypes) => result.status = "ok" /\ result.val = origin.val

C5_Witness ==
  /\ RoundTrip({"i128"})
  /\ origin.val = <<128>> \o Fill(15, 0)
  /\ node.payload = Fill(16, 255)
  /\ result.status = "ok"

\* C6: whenever decoding a payload as a signed type T succeeds with value v,
\* encoding v gives back that payload.
C6_SignedDecodeLossless ==
  (DecodedAs(ITypes) /\ result.status = "ok") => IEncode(result.ty, result.val) = node

\* C7: encode(false) emits the empty payload and encode(true) the payload [0x01].
C7_BoolEncoding ==
  EncodedFrom({"bool"}) =>
    node = ValueNode(IF origin.val THEN <<1>> ELSE <<>>)

\* the big-endian value of a byte string, as a usize of w bytes
BigEndian(bytes, w) == ZeroExtend(bytes, w)

\* C8: decode_usize returns a Result for every byte slice: Ok(0) for the empty
\* slice, InvalidIndirection for a slice of length in [1, pointer width] with a
\* zero first byte, TooBig for a longer slice, otherwise the big-endian value.
C8_DecodeUsizeTotal ==
  DecodedAs(UsizeTargets) =>
    LET w == SizeOf[result.ty]
        bytes == node.payload
    IN  /\ result.status # "panic"
        /\ IF Len(bytes) = 0 THEN result.status = "ok" /\ result.val = Fill(w, 0)
           ELSE IF Len(bytes) > w THEN result.status = "RlpIsTooBig"
           ELSE IF bytes[1] = 0 THEN result.status = "RlpInvalidIndirection"
           ELSE result.status = "ok" /\ result.val = BigEndian(bytes, w)

\* C9: decoding a payload as [u8; N] fails with TooShort when the payload is
\* shorter than N, with TooBig when it is longer, and otherwise succeeds with
\* an array equal to the payload.
C9_ArrayExact ==
  (DecodedAs(ArrayTypes) /\ node.kind = "value") =>
    LET n == ArraySize[result.ty]
        bytes == node.payload
    IN  /\ Len(bytes) < n => result.status = "RlpIsTooShort"
        /\ Len(bytes) > n => result.status = "RlpIsTooBig"
        /\ Len(bytes) = n => result.status = "ok" /\ result.val = bytes

C9_Witness ==
  /\ DecodedAs({"a32"})
  /\ origin.op = "wire"
  /\ PayloadLenIn({32})
  /\ result.status = "ok"
  /\ result.val = node.payload

\* C10: encode(None) emits a list of 0 children and encode(Some(v)) a list of
\* one child holding v's encoding; decoding a list as Option<T> gives None for
\* 0 children, for 1 child Some(x) when the child decodes to x and otherwise
\* the child's error, and for any other count IncorrectListLen with no child
\* decoded; so decoding the encoding of an option gives it back.
C10_OptionArity ==
  /\ EncodedFrom(OptionTypes) =>
       /\ node.kind = "list"
       /\ Len(node.children) = Len(origin.val)
       /\ Len(origin.val) = 1 =>
            node.children[1] = ScalarEncode(Inner[origin.ty], origin.val[1])
  /\ (DecodedAs(OptionTypes) /\ node.kind = "list") =>
       LET n == Len(node.children) IN
       /\ n = 0 => result.status = "ok" /\ result.val = <<>>
       /\ n = 1 =>
            LET r == ScalarDecode(Inner[result.ty], node.children[1])
            IN  IF r.status = "ok"
                THEN result.status = "ok" /\ result.val = <<r.val>>
                ELSE result.status = r.status
       /\ n > 1 => result.status = "RlpIncorrectListLen" /\ result.calls = <<>>
  /\ RoundTrip(OptionTypes) => result.status = "ok" /\ result.val = origin.val

C10_Witness ==
  /\ DecodedAs(OptionTypes)
  /\ node.kind = "list"
  /\ Len(node.children) = 2
  /\ result.status = "RlpIncorrectListLen"

====
